---- MODULE Spec2Model ----
(***************************************************************************)
(* Micro Heap (src/mu/mu_heap.rs): a first-fit allocator over an array of  *)
(* HeapCell<i16> {prev, next}.  The heap area is modelled as the cell array*)
(* itself; the payload of a block is the same memory, so a byte of a data  *)
(* cell is a byte of that cell's prev/next fields (little endian, prev     *)
(* first).  The engine is compiled with DEBUG_HEAP = false, so none of the *)
(* debug_check_* assertions run; what remains are the slice bounds checks  *)
(* (an index outside the array panics) and the loops (which may not end on *)
(* a damaged list).                                                        *)
(***************************************************************************)
EXTENDS Integers, Sequences, FiniteSets, Bags, TLC

\* ---------------------------------------------------------------- bounds
HeapCells == 7          \* cells of the usable array in the exploring model
MaxSize == 5            \* largest request in bytes in the exploring model
MaxLive == 2            \* blocks the caller holds at once
MaxOps == 6             \* calls the caller makes in one run
ScriptMaxCells == 66    \* largest array of the reuse scenario
BandOps == 3            \* calls in one run over the given bases
NThreads == 2           \* threads sharing one MuAlloc
MutexOps == 2           \* engine calls made under the lock in one run
UnderOps == 2           \* allocs on the second instance in one run

\* ------------------------------------------------------ program constants
MAX_ALIGNMENT == 128
MIN_NCELLS == 1
I_MAX == 32767
heapcell_size == 4
NULL == 0

GivenBases == {128, 132}
Aligns == {4, 8}
Sizes == {s \in 0..MaxSize : s = 0 \/ (s >= heapcell_size /\ s % heapcell_size <= 1)}
Stamps == {255}

VARIABLES given_base, given_size, base, ncells, search_start, cells,
          status, live, last, nops, clean, overflow_checks,
          atomic, pc, guards, under

\* the MuHeap inside the MuMutex, and what its caller keeps
heap_vars == <<given_base, given_size, base, ncells, search_start, cells,
               status, live, last, nops, clean, overflow_checks>>

\* the MuMutex's flag, each thread's position in lock(), and the
\* MuMutexGuards each thread holds
mutex_vars == <<atomic, pc, guards>>

\* under: a second MuAlloc, declared on another region (its MuHeap fields,
\* its memory and its lock flag), or Undeclared
vars == <<heap_vars, mutex_vars, under>>

Undeclared == [given_base |-> 0, given_size |-> 0]

\* the threads sharing one MuAlloc
Threads == 1..NThreads

\* MuMutex::new: the flag starts false, no guard exists, no thread is in lock()
MutexNew ==
    /\ atomic = FALSE
    /\ pc = [t \in Threads |-> "idle"]
    /\ guards = [t \in Threads |-> 0]

\* ------------------------------------------------------------ pure helpers
Not(x) == -x - 1

Min(a, b) == IF a < b THEN a ELSE b

round_up(n, m) == ((n + m - 1) \div m) * m

ncells_up(n) == Min((n + heapcell_size - 1) \div heapcell_size, I_MAX)

ncells_down(n) == Min(n \div heapcell_size, I_MAX)

\* I::from_usize for i16: n as i16 keeps the low 16 bits
from_usize(n) == IF n % 65536 >= 32768 THEN (n % 65536) - 65536 ELSE n % 65536

\* align_cell up to ali_mem_i, the index of the aligned data cell
ali_mem_i(cur_i, align) ==
    LET cur_mem_i == cur_i + 1
        cur_mem_off == cur_mem_i * heapcell_size
        ali_mem_off == round_up(cur_mem_off, align)
    IN  from_usize(ali_mem_off \div heapcell_size)

align_cell(cur_i, align) == ali_mem_i(cur_i, align) - 1

\* adjust_heap that takes the area as given
adjust_heap_as_given(gb, gs) ==
    [base |-> gb, ncells |-> ncells_down(gs), wrapped |-> FALSE]

\* given_size - adjust is a usize subtraction: when given_size < adjust it
\* panics where overflow checks are compiled in (wrapped is set for
\* build_heap to tell) and wraps where they are not, to a size of more than
\* I_MAX cells whatever the width of usize
adjust_heap(gb, gs) ==
    LET min_addr == round_up(MAX_ALIGNMENT + 1, heapcell_size)
        min_base == min_addr - heapcell_size
        adjust == min_base - gb
        adj_base == IF gb < min_base THEN gb + adjust ELSE gb
        adj_size == IF gb < min_base THEN gs - adjust ELSE gs
    IN  [base |-> adj_base,
         ncells |-> IF adj_size < 0 THEN I_MAX ELSE ncells_down(adj_size),
         wrapped |-> adj_size < 0]

\* --------------------------------------------------- memory representation
\* A cell is its 4 bytes: prev (little endian) then next.  UNK is a byte the
\* engine has not written and the caller has not stored: its value is
\* unspecified.  A field with an unspecified byte reads as STALE.
UNK == 256
OOB == 100000
STALE == 100001
HANG == 100002
OVF == 100003

Bad(v) == v >= OOB

ToU16(x) == IF x < 0 THEN x + 65536 ELSE x

ToI16(u) == IF u >= 32768 THEN u - 65536 ELSE u

FieldOf(lo, hi) == IF lo = UNK \/ hi = UNK THEN STALE ELSE ToI16(lo + 256 * hi)

GetByte(cs, off) == cs[off \div heapcell_size][(off % heapcell_size) + 1]

\* the cell array after the bytes of f (byte offset -> value) are stored
PutBytes(cs, f) ==
    [i \in DOMAIN cs |->
        [k \in 1..heapcell_size |->
            IF (i * heapcell_size + k - 1) \in DOMAIN f
            THEN f[i * heapcell_size + k - 1]
            ELSE cs[i][k]]]

\* the n bytes at address ptr
BlockBytes(h, ptr, n) == [k \in 0..(n - 1) |-> GetByte(h.cells, ptr - h.base + k)]

\* ------------------------------------------------------------ heap record
Self == [base |-> base, ncells |-> ncells, search_start |-> search_start,
         cells |-> cells, status |-> status, overflow_checks |-> overflow_checks]

Ok(h) == h.status = "ok"

\* cells[i.to_usize()]: the slice index is bounds checked
InB(h, i) == i >= 0 /\ i < h.ncells

Panic(h) == [h EXCEPT !.status = "panic"]

Hang(h) == [h EXCEPT !.status = "hang"]

Fail(h, v) == [h EXCEPT !.status = IF v = OOB \/ v = OVF THEN "panic"
                                   ELSE IF v = HANG THEN "hang" ELSE "stale"]

\* a + b in the index type i16: beyond I::MAX the sum panics in a build with
\* overflow checks and wraps in a build without
Add16(h, a, b) ==
    IF Bad(a) THEN a
    ELSE IF a + b <= I_MAX THEN a + b
    ELSE IF h.overflow_checks THEN OVF
    ELSE ToI16((a + b) % 65536)

\* a - b in the index type i16: below I::MIN the difference panics in a build
\* with overflow checks and wraps in a build without
Sub16(h, a, b) ==
    IF Bad(a) THEN a
    ELSE IF a - b >= -I_MAX - 1 THEN a - b
    ELSE IF h.overflow_checks THEN OVF
    ELSE a - b + 65536

GetPrev(h, i) == IF ~InB(h, i) THEN OOB ELSE FieldOf(h.cells[i][1], h.cells[i][2])

GetNext(h, i) == IF ~InB(h, i) THEN OOB ELSE FieldOf(h.cells[i][3], h.cells[i][4])

SetNext(h, i, v) ==
    IF ~Ok(h) THEN h
    ELSE IF ~InB(h, i) THEN Panic(h)
    ELSE [h EXCEPT !.cells[i] = <<@[1], @[2], ToU16(v) % 256, ToU16(v) \div 256>>]

SetPrev(h, i, v) ==
    IF ~Ok(h) THEN h
    ELSE IF ~InB(h, i) THEN Panic(h)
    ELSE [h EXCEPT !.cells[i] = <<ToU16(v) % 256, ToU16(v) \div 256, @[3], @[4]>>]

\* build_heap that sets base and ncells and leaves cell 0 as it finds it
build_heap_without_cell(h, gb, gs) ==
    [h EXCEPT !.base = adjust_heap(gb, gs).base, !.ncells = adjust_heap(gb, gs).ncells]

build_heap(h, gb, gs) ==
    LET adj == adjust_heap(gb, gs)
        h1 == [h EXCEPT !.base = adj.base, !.ncells = adj.ncells]
    IN  IF adj.wrapped /\ h.overflow_checks THEN Panic(h)
        ELSE IF adj.ncells < MIN_NCELLS THEN Panic(h)
        ELSE SetNext(SetPrev(h1, 0, 0), 0, 0)

cell_to_ptr(h, cur_i) == h.base + (cur_i + 1) * heapcell_size

ptr_to_cell(h, ptr) == ncells_down(ptr - h.base) - 1

\* alloc_cells, first write: the padding run cur_i..bgn_i (free)
PadRun(h, cur_i, bgn_i) ==
    IF cur_i < bgn_i
    THEN SetPrev(SetNext(h, cur_i, Not(bgn_i)), bgn_i, Not(cur_i))
    ELSE h

\* alloc_cells, second write: the in-use run bgn_i..end_i
UsedRun(h, bgn_i, end_i) == SetPrev(SetNext(h, bgn_i, end_i), end_i, bgn_i)

\* alloc_cells, third write: the rest end_i..nxt_i stays free
RestRun(h, end_i, nxt_i) ==
    IF end_i < nxt_i
    THEN IF nxt_i < h.ncells
         THEN SetPrev(SetNext(h, end_i, Not(nxt_i)), nxt_i, Not(end_i))
         ELSE SetNext(h, end_i, 0)
    ELSE h

\* alloc_cells, last: search_start moves to the end of the claimed run
StartAfter(h, cur_i, end_i, nxt_i, caller) ==
    IF Ok(h) /\ (caller = "Alloc" \/
                 (h.search_start >= cur_i /\ h.search_start <= nxt_i))
    THEN [h EXCEPT !.search_start = end_i]
    ELSE h

alloc_cells(h, cur_i, bgn_i, end_i, nxt_i, caller) ==
    StartAfter(RestRun(UsedRun(PadRun(h, cur_i, bgn_i), bgn_i, end_i),
                       end_i, nxt_i),
               cur_i, end_i, nxt_i, caller)

\* &mut cells[cur_i + 1] as a pointer: the slice index is bounds checked
cell_to_ptr_checked(h, cur_i) ==
    IF ~Ok(h) THEN [h |-> h, ptr |-> NULL]
    ELSE IF ~InB(h, cur_i + 1) THEN [h |-> Panic(h), ptr |-> NULL]
    ELSE [h |-> h, ptr |-> cell_to_ptr(h, cur_i)]

RECURSIVE Scan(_, _, _, _, _, _)
\* Visit giving up at the end of the array instead of going on from cell 0
Visit_to_end(h, start, cur_i, next_val, req_ncells, align, fuel) ==
    IF Bad(next_val) THEN [h |-> Fail(h, next_val), ptr |-> NULL]
    ELSE IF next_val <= 0 /\ Bad(Sub16(h, ali_mem_i(cur_i, align), 1))
    THEN [h |-> Fail(h, OVF), ptr |-> NULL]
    ELSE
      LET bgn_i == Sub16(h, ali_mem_i(cur_i, align), 1)
          nxt_i == IF next_val < 0 THEN Not(next_val) ELSE h.ncells
          free_ncells == IF next_val < 0 THEN nxt_i - bgn_i - 1
                         ELSE nxt_i - bgn_i - 2
          to_i == IF next_val > 0 THEN next_val
                  ELSE IF next_val < 0 THEN nxt_i ELSE 0
      IN  IF next_val <= 0 /\ free_ncells >= req_ncells
          THEN cell_to_ptr_checked(
                   alloc_cells(h, cur_i, bgn_i, bgn_i + req_ncells + 1, nxt_i,
                               "Alloc"),
                   bgn_i)
          ELSE IF to_i = start \/ to_i = 0 THEN [h |-> h, ptr |-> NULL]
          ELSE Scan(h, start, to_i, req_ncells, align, fuel - 1)

\* one pass of the loop of do_alloc at cur_i, whose next field is next_val
Visit(h, start, cur_i, next_val, req_ncells, align, fuel) ==
    IF Bad(next_val) THEN [h |-> Fail(h, next_val), ptr |-> NULL]
    ELSE IF next_val <= 0 /\ Bad(Sub16(h, ali_mem_i(cur_i, align), 1))
    THEN [h |-> Fail(h, OVF), ptr |-> NULL]
    ELSE
      LET bgn_i == Sub16(h, ali_mem_i(cur_i, align), 1)
          nxt_i == IF next_val < 0 THEN Not(next_val) ELSE h.ncells
          free_ncells == IF next_val < 0 THEN nxt_i - bgn_i - 1
                         ELSE nxt_i - bgn_i - 2
          to_i == IF next_val > 0 THEN next_val
                  ELSE IF next_val < 0 THEN nxt_i ELSE 0
      IN  IF next_val <= 0 /\ free_ncells >= req_ncells
          THEN cell_to_ptr_checked(
                   alloc_cells(h, cur_i, bgn_i, bgn_i + req_ncells + 1, nxt_i,
                               "Alloc"),
                   bgn_i)
          ELSE IF to_i = start THEN [h |-> h, ptr |-> NULL]
          ELSE Scan(h, start, to_i, req_ncells, align, fuel - 1)

\* the loop of do_alloc; it has no end when it comes back to a cell it has
\* visited without passing search_start (fuel: one visit per cell)
Scan(h, start, cur_i, req_ncells, align, fuel) ==
    IF fuel = 0 THEN [h |-> Hang(h), ptr |-> NULL]
    ELSE Visit(h, start, cur_i, GetNext(h, cur_i), req_ncells, align, fuel)

\* do_alloc scanning from cell 0 whatever search_start is
do_alloc_from_zero(h, size, align) ==
    Scan(h, 0, 0, ncells_up(size), align, h.ncells + 1)

do_alloc(h, size, align) ==
    Scan(h, h.search_start, h.search_start, ncells_up(size), align, h.ncells + 1)

\* alloc_built without the size 0 case
alloc_built_any_size(h, size, align) ==
    IF ~Ok(h) THEN [h |-> h, ptr |-> NULL] ELSE do_alloc(h, size, align)

\* alloc once the heap is built
alloc_built(h, size, align) ==
    IF ~Ok(h) THEN [h |-> h, ptr |-> NULL]
    ELSE IF size = 0 THEN [h |-> h, ptr |-> align]
    ELSE do_alloc(h, size, align)

\* alloc running build_heap on every call
alloc_rebuilding(h, gb, gs, size, align) ==
    alloc_built(build_heap(h, gb, gs), size, align)

alloc(h, gb, gs, size, align) ==
    alloc_built(IF h.base = 0 THEN build_heap(h, gb, gs) ELSE h, size, align)

\* free_cells' backward loop:
\*   while prev > 0 && cells[prev].prev < 0 { prev = !cells[cur_i].prev }
\* after one pass prev no longer changes, so a second pass never ends
BackFree(h, cur_i) ==
    IF cur_i <= 0 THEN cur_i
    ELSE LET v == GetPrev(h, cur_i)
         IN  IF Bad(v) THEN v
             ELSE IF v >= 0 THEN cur_i
             ELSE LET p == Not(v)
                      w == GetPrev(h, p)
                  IN  IF p <= 0 THEN p
                      ELSE IF Bad(w) THEN w
                      ELSE IF w < 0 THEN HANG
                      ELSE p

RECURSIVE FwdFree(_, _, _)
\* free_cells' forward loop:
\*   while next > 0 && cells[next].next < 0 { next = !cells[next].next }
FwdFree(h, next, fuel) ==
    IF next <= 0 THEN next
    ELSE LET v == GetNext(h, next)
         IN  IF Bad(v) THEN v
             ELSE IF v >= 0 THEN next
             ELSE IF fuel = 0 THEN HANG
             ELSE FwdFree(h, Not(v), fuel - 1)

\* free_cells, first write: the free run prev..next
FreeRun(h, prev, next) ==
    IF prev # next
    THEN IF next = 0 THEN SetNext(h, prev, 0) ELSE SetNext(h, prev, Not(next))
    ELSE IF prev = 0 THEN SetNext(h, 0, 0) ELSE h

\* free_cells, second write: the back link of the run that follows
BackLink(h, prev, next) == IF next > 0 THEN SetPrev(h, next, Not(prev)) ELSE h

\* StartBack without the upper limit: search_start moves back from anywhere
\* behind the merged run
StartBackFromAnywhere(h, prev, next) ==
    IF Ok(h) /\ h.search_start > prev
    THEN [h EXCEPT !.search_start = prev]
    ELSE h

\* free_cells, last: search_start moves back to the head of the merged run
StartBack(h, prev, next) ==
    IF Ok(h) /\ h.search_start > prev /\ (next = 0 \/ h.search_start <= next)
    THEN [h EXCEPT !.search_start = prev]
    ELSE h

\* free_cells once both loops have ended at prev and nx, nxv = cells[nx].next
Merge(h, prev, nx, nxv) ==
    IF Bad(prev) THEN Fail(h, prev)
    ELSE IF Bad(nx) THEN Fail(h, nx)
    ELSE IF Bad(nxv) THEN Fail(h, nxv)
    ELSE LET next == IF nxv = 0 THEN 0 ELSE nx
         IN  StartBack(BackLink(FreeRun(h, prev, next), prev, next), prev, next)

\* cells[next].next after the forward loop
NextAfter(h, nx) == IF Bad(nx) THEN nx ELSE GetNext(h, nx)

MergeAt(h, prev, nx) == Merge(h, prev, nx, NextAfter(h, nx))

free_cells(h, cur_i, nxt_i, caller) ==
    IF ~Ok(h) THEN h
    ELSE MergeAt(h, BackFree(h, cur_i), FwdFree(h, nxt_i, h.ncells + 1))

\* free_cells on the run cur_i..nxt_i, nxt_i read from cells[cur_i].next
FreeAt(h, cur_i, nxt_i) ==
    IF Bad(nxt_i) THEN Fail(h, nxt_i) ELSE free_cells(h, cur_i, nxt_i, "Dealloc")

do_dealloc(h, ptr, size, align) ==
    FreeAt(h, ptr_to_cell(h, ptr), GetNext(h, ptr_to_cell(h, ptr)))

dealloc(h, ptr, size, align) ==
    IF size = 0 THEN h ELSE do_dealloc(h, ptr, size, align)

\* copy_nonoverlapping(src, dst, n); overlapping ranges are undefined
copy_nonoverlapping(h, src, dst, n) ==
    LET so == src - h.base
        do == dst - h.base
        lim == h.ncells * heapcell_size
    IN  IF ~Ok(h) \/ n = 0 THEN h
        ELSE IF so < 0 \/ do < 0 \/ so + n > lim \/ do + n > lim
                \/ (so < do + n /\ do < so + n)
        THEN [h EXCEPT !.status = "ub"]
        ELSE [h EXCEPT !.cells =
                 PutBytes(h.cells, [o \in do..(do + n - 1) |-> GetByte(h.cells, so + (o - do))])]

GrowResult(h, ptr, path) == [h |-> h, ptr |-> IF Ok(h) THEN ptr ELSE NULL, path |-> path]

\* do_grow's last two statements: do_dealloc(old_ptr, ..); new_ptr
Release(h, old_ptr, old_size, align, new_ptr) ==
    GrowResult(IF Ok(h) THEN do_dealloc(h, old_ptr, old_size, align) ELSE h,
               new_ptr,
               IF new_ptr # NULL THEN "moved" ELSE "failed")

\* do_grow's fallback once do_alloc has returned a: copy if a.ptr is not null
Fallback(a, old_ptr, old_size, align) ==
    Release(IF a.ptr # NULL
            THEN copy_nonoverlapping(a.h, old_ptr, a.ptr, old_size)
            ELSE a.h,
            old_ptr, old_size, align, a.ptr)

\* do_grow once far_val = cells[nxt_i].next has been read
GrowFar(h, old_ptr, old_size, new_size, align, cur_i, far_val) ==
    IF Bad(far_val) THEN GrowResult(Fail(h, far_val), NULL, "halt")
    ELSE
      LET far_i == IF far_val < 0 THEN Not(far_val) ELSE 0
          end_i == Add16(h, Add16(h, cur_i, ncells_up(new_size)), 1)
      IN  IF far_val <= 0 /\ Bad(end_i)
          THEN GrowResult(Fail(h, end_i), NULL, "halt")
          ELSE IF far_val <= 0 /\ end_i <= far_i
          THEN GrowResult(alloc_cells(h, cur_i, cur_i, end_i, far_i, "Grow"),
                          old_ptr, "inplace")
          ELSE Fallback(do_alloc(h, new_size, align), old_ptr, old_size, align)

\* do_grow once nxt_i = cells[cur_i].next has been read
GrowAt(h, old_ptr, old_size, new_size, align, cur_i, nxt_i) ==
    IF Bad(nxt_i) THEN GrowResult(Fail(h, nxt_i), NULL, "halt")
    ELSE GrowFar(h, old_ptr, old_size, new_size, align, cur_i, GetNext(h, nxt_i))

do_grow(h, old_ptr, old_size, new_size, align) ==
    GrowAt(h, old_ptr, old_size, new_size, align,
           ptr_to_cell(h, old_ptr), GetNext(h, ptr_to_cell(h, old_ptr)))

\* grow with old_size = 0 is do_alloc(new_size, align)
GrowFromZero(a) ==
    [h |-> a.h, ptr |-> a.ptr,
     path |-> IF a.ptr # NULL THEN "delegate" ELSE "delegate-failed"]

grow(h, old_ptr, old_size, new_size, align) ==
    IF old_size = 0 THEN GrowFromZero(do_alloc(h, new_size, align))
    ELSE do_grow(h, old_ptr, old_size, new_size, align)

ptr_checked(h, ptr) == [h |-> h, ptr |-> IF Ok(h) THEN ptr ELSE NULL]

\* do_shrink once nxt_i = cells[cur_i].next has been read
ShrinkAt(h, ptr, cur_i, end_i, nxt_i) ==
    IF Bad(nxt_i) THEN ptr_checked(Fail(h, nxt_i), ptr)
    ELSE IF end_i < nxt_i
    THEN ptr_checked(free_cells(alloc_cells(h, cur_i, cur_i, end_i, nxt_i, "Shrink"),
                                end_i, nxt_i, "Shrink"),
                     ptr)
    ELSE ptr_checked(h, ptr)

do_shrink(h, ptr, old_size, new_size, align) ==
    ShrinkAt(h, ptr, ptr_to_cell(h, ptr),
             ptr_to_cell(h, ptr) + ncells_up(new_size) + 1,
             GetNext(h, ptr_to_cell(h, ptr)))

shrink(h, ptr, old_size, new_size, align) ==
    IF old_size = 0 THEN [h |-> h, ptr |-> ptr]
    ELSE do_shrink(h, ptr, old_size, new_size, align)

\* ------------------------------------------------------------------ caller
\* live: the blocks the caller holds, as the allocator interface tells it
\* (a bag: the engine may hand out one address twice)
Blocks == BagToSet(live)

Block(ptr, size, align) == [ptr |-> ptr, size |-> size, align |-> align]

\* a zero-size allocation is the value of align and nothing in the heap, so
\* the caller holds one of every alignment once the heap is built
Sentinels == {Block(a, 0, a) : a \in Aligns}

Held == IF base = 0 THEN {} ELSE Blocks \cup Sentinels

Add(bag, b) == bag (+) SetToBag({b})

Remove(bag, b) == bag (-) SetToBag({b})

Did(op, path, ret) == [op |-> op, path |-> path, ret |-> ret]

Init ==
    /\ given_base \in GivenBases
    /\ given_size = HeapCells * heapcell_size +
                    (IF given_base < MAX_ALIGNMENT THEN MAX_ALIGNMENT - given_base ELSE 0)
    /\ base = 0
    /\ ncells = 0
    /\ search_start = 0
    /\ cells = [i \in 0..(HeapCells - 1) |-> <<UNK, UNK, UNK, UNK>>]
    /\ status = "ok"
    /\ live = EmptyBag
    /\ last = Did("none", "none", NULL)
    /\ nops = 0
    /\ clean = TRUE
    /\ overflow_checks = FALSE
    /\ MutexNew
    /\ under = Undeclared

RECURSIVE Walk(_, _, _)
\* the cells reached from cell i by the next links
Walk(h, i, fuel) ==
    LET v == GetNext(h, i)
    IN  IF ~InB(h, i) THEN {}
        ELSE IF fuel = 0 \/ Bad(v) \/ v = 0 THEN {i}
        ELSE {i} \cup Walk(h, IF v > 0 THEN v ELSE Not(v), fuel - 1)

Boundaries(h) == Walk(h, 0, h.ncells) \cup Walk(h, h.search_start, h.ncells)

\* the bytes the caller owns: the size bytes of each block it holds
Owned(h, held) ==
    UNION {(b.ptr - h.base)..(b.ptr - h.base + b.size - 1) : b \in BagToSet(held)}

\* the bytes from..to-1 of the block at ptr
Bytes(h, ptr, from, to) == (ptr - h.base + from)..(ptr - h.base + to - 1)

\* every byte outside the run boundaries and the caller's blocks is
\* unspecified: nothing is known about what free memory holds, nor about
\* the bytes of a block the caller has just been given (fresh)
Keep(h, bnd, own) ==
    [h EXCEPT !.cells =
        [i \in DOMAIN h.cells |->
            IF i \in bnd THEN h.cells[i]
            ELSE [k \in 1..heapcell_size |->
                     IF (i * heapcell_size + k - 1) \in own
                     THEN h.cells[i][k] ELSE UNK]]]

Forget(h, held, fresh) == Keep(h, Boundaries(h), Owned(h, held) \ fresh)

Record(h, held) ==
    /\ base' = h.base
    /\ ncells' = h.ncells
    /\ search_start' = h.search_start
    /\ cells' = h.cells
    /\ status' = h.status
    /\ live' = held
    /\ nops' = nops + 1
    /\ UNCHANGED <<given_base, given_size, overflow_checks>>

Commit(h0, held, fresh) == Record(Forget(h0, held, fresh), held)

CanCall == status = "ok" /\ nops < MaxOps

AllocPath(size, ptr) ==
    IF size = 0 THEN "zero" ELSE IF ptr # NULL THEN "fit" ELSE "nofit"

\* the caller takes the block alloc returned (r), unless it is null
AllocReturn(size, align, r) ==
    /\ Commit(r.h,
              IF r.ptr # NULL /\ size > 0
              THEN Add(live, Block(r.ptr, size, align)) ELSE live,
              IF r.ptr # NULL /\ size > 0
              THEN Bytes(r.h, r.ptr, 0, size) ELSE {})
    /\ last' = Did("alloc", AllocPath(size, r.ptr),
                   IF size = 0 THEN NULL ELSE r.ptr)
    /\ clean' = (clean /\ r.ptr # NULL)

AllocCall(size, align) ==
    /\ CanCall
    /\ BagCardinality(live) < MaxLive
    /\ AllocReturn(size, align, alloc(Self, given_base, given_size, size, align))

DeallocCall(b) ==
    /\ CanCall
    /\ Commit(dealloc(Self, b.ptr, b.size, b.align), Remove(live, b), {})
    /\ last' = Did("dealloc",
                   IF b.size = 0 THEN "zero"
                   ELSE IF last.op = "alloc" /\ last.ret = b.ptr
                   THEN "roundtrip" ELSE "freed", NULL)
    /\ clean' = clean

\* the caller swaps b for the block grow returned (r); on null it keeps b
GrowReturn(b, new_size, r) ==
    /\ Commit(r.h,
              IF r.ptr # NULL
              THEN Add(Remove(live, b), Block(r.ptr, new_size, b.align))
              ELSE live,
              IF r.ptr # NULL
              THEN Bytes(r.h, r.ptr, b.size, new_size) ELSE {})
    /\ last' = Did("grow", r.path, NULL)
    /\ clean' = (clean /\ r.ptr # NULL)

GrowCall(b, new_size) ==
    /\ CanCall
    /\ b.size <= new_size
    /\ b \in Blocks \/ BagCardinality(live) < MaxLive
    /\ GrowReturn(b, new_size, grow(Self, b.ptr, b.size, new_size, b.align))

ShrinkReturn(b, new_size, r) ==
    /\ Commit(r.h,
              IF b \in Blocks /\ r.ptr # NULL
              THEN Add(Remove(live, b), Block(r.ptr, new_size, b.align))
              ELSE live,
              {})
    /\ last' = Did("shrink", IF b.size = 0 THEN "zero" ELSE "cut", NULL)
    /\ clean' = clean

ShrinkCall(b, new_size) ==
    /\ CanCall
    /\ new_size <= b.size
    /\ ShrinkReturn(b, new_size, shrink(Self, b.ptr, b.size, new_size, b.align))

\* the caller fills a block it holds with one byte value
StoreCall(b, v) ==
    /\ status = "ok"
    /\ b.size > 0
    /\ cells' = PutBytes(cells, [o \in Bytes(Self, b.ptr, 0, b.size) |-> v])
    /\ last' = Did("store", "none", NULL)
    /\ UNCHANGED <<given_base, given_size, base, ncells, search_start,
                   status, live, nops, clean, overflow_checks>>

Alloc ==
    /\ \E size \in Sizes, align \in Aligns : AllocCall(size, align)
    /\ UNCHANGED <<mutex_vars, under>>

Dealloc ==
    /\ \E b \in Held : DeallocCall(b)
    /\ UNCHANGED <<mutex_vars, under>>

Grow ==
    /\ \E b \in Held, new_size \in Sizes : GrowCall(b, new_size)
    /\ UNCHANGED <<mutex_vars, under>>

Shrink ==
    /\ \E b \in Held, new_size \in Sizes : ShrinkCall(b, new_size)
    /\ UNCHANGED <<mutex_vars, under>>

Store ==
    /\ \E b \in Blocks, v \in Stamps : StoreCall(b, v)
    /\ UNCHANGED <<mutex_vars, under>>

Next == Alloc \/ Dealloc \/ Grow \/ Shrink \/ Store

Spec == Init /\ [][Next]_vars

\* ---------------------------------------------------------- reuse scenario
\* alloc A, alloc B, dealloc A, alloc C on a fresh heap (the sizes of the
\* fragmentation/reuse case), with one alignment, over arrays with room left
\* after A and B; nops is the position in the script
ScriptSizes == [A |-> 100, B |-> 50, C |-> 60]

ScriptCells == 48..ScriptMaxCells

ScriptAligns == {4, 8, 16}

ScriptInit ==
    /\ given_base \in GivenBases
    /\ \E c \in ScriptCells :
          /\ given_size = c * heapcell_size
          /\ cells = [i \in 0..(c - 1) |-> <<UNK, UNK, UNK, UNK>>]
    /\ base = 0
    /\ ncells = 0
    /\ search_start = 0
    /\ status = "ok"
    /\ live = EmptyBag
    /\ last = Did("none", "none", NULL)
    /\ nops = 0
    /\ clean = TRUE
    /\ overflow_checks = FALSE
    /\ MutexNew
    /\ under = Undeclared

ScriptAlloc(size, align) ==
    /\ AllocReturn(size, align, alloc(Self, given_base, given_size, size, align))
    /\ UNCHANGED <<mutex_vars, under>>

ScriptAllocA ==
    /\ status = "ok" /\ nops = 0
    /\ \E align \in ScriptAligns : ScriptAlloc(ScriptSizes.A, align)

ScriptAllocB ==
    /\ status = "ok" /\ nops = 1
    /\ \E a \in Blocks : ScriptAlloc(ScriptSizes.B, a.align)

\* last.ret keeps the address A had
ScriptDeallocA ==
    /\ status = "ok" /\ nops = 2
    /\ \E a \in Blocks :
          /\ a.size = ScriptSizes.A
          /\ Commit(dealloc(Self, a.ptr, a.size, a.align), Remove(live, a), {})
          /\ last' = Did("dealloc", "freed", a.ptr)
          /\ clean' = clean
    /\ UNCHANGED <<mutex_vars, under>>

ScriptAllocC ==
    /\ status = "ok" /\ nops = 3
    /\ \E b \in Blocks : ScriptAlloc(ScriptSizes.C, b.align)

ScriptNext == ScriptAllocA \/ ScriptAllocB \/ ScriptDeallocA \/ ScriptAllocC

SpecScript == ScriptInit /\ [][ScriptNext]_vars

\* ------------------------------------------------------------- given bases
\* the same calls on areas given at bases below, at and above the reserved
\* band, cell aligned or not
BandBases == {4, 64, 126, 127, 128, 129, 130, 132}

\* the size given with a base: room for HeapCells cells above the band
BandSize(gb) ==
    HeapCells * heapcell_size + (IF gb < MAX_ALIGNMENT THEN MAX_ALIGNMENT - gb ELSE 0)

\* the instance is declared with heap(given_base, given_size), or with
\* noheap(), which leaves both at 0
BandInit ==
    /\ \/ given_base \in BandBases /\ given_size = BandSize(given_base)
       \/ given_base = 0 /\ given_size = 0
    /\ base = 0
    /\ ncells = 0
    /\ search_start = 0
    /\ cells = [i \in 0..(HeapCells - 1) |-> <<UNK, UNK, UNK, UNK>>]
    /\ status = "ok"
    /\ live = EmptyBag
    /\ last = Did("none", "none", NULL)
    /\ nops = 0
    /\ clean = TRUE
    /\ overflow_checks = FALSE
    /\ MutexNew
    /\ under = Undeclared

set_heap(h, gb, gs) == build_heap(h, gb, gs)

\* set_heap(gb, gs) has left the heap h
SetHeapReturn(gb, gs, h) ==
    /\ given_base' = gb
    /\ given_size' = gs
    /\ base' = h.base
    /\ ncells' = h.ncells
    /\ search_start' = h.search_start
    /\ cells' = h.cells
    /\ status' = h.status
    /\ last' = Did("set_heap", "none", NULL)
    /\ nops' = nops + 1
    /\ UNCHANGED <<live, clean, overflow_checks, mutex_vars, under>>

\* set_heap on an instance declared with noheap()
SetHeapCall(gb) ==
    /\ status = "ok"
    /\ given_base = 0 /\ given_size = 0 /\ base = 0 /\ ncells = 0
    /\ SetHeapReturn(gb, BandSize(gb), set_heap(Self, gb, BandSize(gb)))

BandSetHeap == nops < BandOps /\ \E gb \in BandBases : SetHeapCall(gb)

\* alloc is called on an instance that has its area
BandAlloc == nops < BandOps /\ given_base # 0 /\ given_size # 0 /\ Alloc

BandDealloc == nops < BandOps /\ Dealloc

BandGrow == nops < BandOps /\ Grow

BandShrink == nops < BandOps /\ Shrink

BandNext == BandSetHeap \/ BandAlloc \/ BandDealloc \/ BandGrow \/ BandShrink

SpecBand == BandInit /\ [][BandNext]_vars

\* ------------------------------------------------------------ wide requests
\* the same calls, and requests whose cell count ncells_up clamps to I::MAX,
\* in a build with and in a build without overflow checks
WideSizes == {I_MAX * heapcell_size, I_MAX * heapcell_size + 1}

WideInit ==
    /\ given_base \in GivenBases
    /\ given_size = HeapCells * heapcell_size
    /\ base = 0
    /\ ncells = 0
    /\ search_start = 0
    /\ cells = [i \in 0..(HeapCells - 1) |-> <<UNK, UNK, UNK, UNK>>]
    /\ status = "ok"
    /\ live = EmptyBag
    /\ last = Did("none", "none", NULL)
    /\ nops = 0
    /\ clean = TRUE
    /\ overflow_checks \in BOOLEAN
    /\ MutexNew
    /\ under = Undeclared

WideAlloc ==
    /\ nops < BandOps
    /\ \E size \in WideSizes, align \in Aligns : AllocCall(size, align)
    /\ UNCHANGED <<mutex_vars, under>>

WideGrow ==
    /\ nops < BandOps
    /\ \E b \in Held, new_size \in WideSizes : GrowCall(b, new_size)
    /\ UNCHANGED <<mutex_vars, under>>

WideNext ==
    BandAlloc \/ BandDealloc \/ BandGrow \/ BandShrink \/ WideAlloc \/ WideGrow

SpecWide == WideInit /\ [][WideNext]_vars

\* ---------------------------------------------------------- wide alignments
\* the same calls, and allocs with a power-of-two alignment of I::MAX + 1
\* cells and of twice that, in a build with and in a build without overflow
\* checks
WideAligns == {(I_MAX + 1) * heapcell_size, 2 * (I_MAX + 1) * heapcell_size}

AlignAlloc ==
    /\ nops < BandOps
    /\ \E size \in Sizes \ {0}, align \in WideAligns : AllocCall(size, align)
    /\ UNCHANGED <<mutex_vars, under>>

AlignNext ==
    BandAlloc \/ BandDealloc \/ BandGrow \/ BandShrink \/ AlignAlloc

SpecAlign == WideInit /\ [][AlignNext]_vars

\* ------------------------------------------------------------------- mutex
\* threads sharing one MuAlloc.  pc[t] is the thread's position: "idle"
\* outside lock(), "cas" at the compare_exchange_weak of spin_lock, "load" in
\* the inner read-only loop, "in" after lock() returned the guard, "engine"
\* inside the engine call made through the guard, "called" after it.  A load that reads true
\* leaves every variable as it is, so it is a stuttering step.
MutexInit ==
    /\ given_base = MAX_ALIGNMENT
    /\ given_size = HeapCells * heapcell_size
    /\ base = 0
    /\ ncells = 0
    /\ search_start = 0
    /\ cells = [i \in 0..(HeapCells - 1) |-> <<UNK, UNK, UNK, UNK>>]
    /\ status = "ok"
    /\ live = EmptyBag
    /\ last = Did("none", "none", NULL)
    /\ nops = 0
    /\ clean = TRUE
    /\ overflow_checks = FALSE
    /\ MutexNew
    /\ under = Undeclared

At(t, where) == [pc EXCEPT ![t] = where]

\* a thread enters lock() holding no guard
lock(t) ==
    /\ pc[t] = "idle" /\ guards[t] = 0
    /\ pc' = At(t, "cas")
    /\ UNCHANGED <<heap_vars, atomic, guards, under>>

\* a thread enters lock() while it holds the guard
lock_again(t) ==
    /\ pc[t] \in {"in", "called"} /\ guards[t] > 0
    /\ pc' = At(t, "cas")
    /\ UNCHANGED <<heap_vars, atomic, guards, under>>

\* compare_exchange_weak(false, true) succeeds: spin_lock returns and lock()
\* makes the guard
compare_exchange_weak_store(t) == pc[t] = "cas"

compare_exchange_weak_reentrant(t) ==
    pc[t] = "cas" /\ (atomic = FALSE \/ guards[t] > 0)

compare_exchange_weak_false(t) == pc[t] = "cas" /\ atomic = FALSE

compare_exchange_weak_ok(t) ==
    /\ compare_exchange_weak_false(t)
    /\ atomic' = TRUE
    /\ guards' = [guards EXCEPT ![t] = @ + 1]
    /\ pc' = At(t, "in")
    /\ UNCHANGED <<heap_vars, under>>

\* compare_exchange_weak fails, on a true flag or spuriously on a false one
compare_exchange_weak_err(t) ==
    /\ pc[t] = "cas"
    /\ pc' = At(t, "load")
    /\ UNCHANGED <<heap_vars, atomic, guards, under>>

load_inverted(t) ==
    /\ pc[t] = "load" /\ atomic = TRUE
    /\ pc' = At(t, "cas")
    /\ UNCHANGED <<heap_vars, atomic, guards, under>>

\* the inner loop left after one load, whatever it read
load_once(t) ==
    /\ pc[t] = "load"
    /\ pc' = At(t, "cas")
    /\ UNCHANGED <<heap_vars, atomic, guards, under>>

\* the inner loop reads false and goes back to the compare_exchange_weak
load_false(t) ==
    /\ pc[t] = "load" /\ atomic = FALSE
    /\ pc' = At(t, "cas")
    /\ UNCHANGED <<heap_vars, atomic, guards, under>>

\* the engine call of an adapter, made through the guard
Engine ==
    \/ \E size \in Sizes, align \in Aligns : AllocCall(size, align)
    \/ \E b \in Held : DeallocCall(b)
    \/ \E b \in Held, new_size \in Sizes : GrowCall(b, new_size)
    \/ \E b \in Held, new_size \in Sizes : ShrinkCall(b, new_size)

\* the adapter makes its engine call through the guard
call(t) ==
    /\ pc[t] = "in" /\ guards[t] > 0
    /\ nops < MutexOps
    /\ Engine
    /\ pc' = At(t, "engine")
    /\ UNCHANGED <<atomic, guards, under>>

\* the engine call returns to the adapter
return(t) ==
    /\ pc[t] = "engine"
    /\ pc' = At(t, "called")
    /\ UNCHANGED <<heap_vars, atomic, guards, under>>

\* what spin_unlock stores in the flag
spin_unlock_keeps == atomic

spin_unlock == FALSE

\* the guard goes out of scope: drop calls spin_unlock
drop(t) ==
    /\ pc[t] \in {"in", "called"} /\ guards[t] > 0
    /\ atomic' = spin_unlock
    /\ guards' = [guards EXCEPT ![t] = @ - 1]
    /\ pc' = At(t, "idle")
    /\ UNCHANGED <<heap_vars, under>>

MutexLock == \E t \in Threads : lock(t)
MutexLockAgain == \E t \in Threads : lock_again(t)
MutexCasOk == \E t \in Threads : compare_exchange_weak_ok(t)
MutexCasErr == \E t \in Threads : compare_exchange_weak_err(t)
MutexLoad == \E t \in Threads : load_false(t)
MutexCall == \E t \in Threads : call(t)
MutexReturn == \E t \in Threads : return(t)
MutexDrop == \E t \in Threads : drop(t)

MutexNext ==
    \/ MutexLock \/ MutexLockAgain \/ MutexCasOk \/ MutexCasErr
    \/ MutexLoad \/ MutexCall \/ MutexReturn \/ MutexDrop

SpecMutex == MutexInit /\ [][MutexNext]_vars

\* the same threads when no holder calls lock() again, so that every guard
\* can be dropped, under fair scheduling: a thread inside lock(), inside an
\* engine call or past it keeps running (weak fairness of its steps), and a
\* compare_exchange_weak that meets a false flag again and again does not
\* fail spuriously every time (strong fairness of its success)
FairNext ==
    \/ MutexLock \/ MutexCasOk \/ MutexCasErr
    \/ MutexLoad \/ MutexCall \/ MutexReturn \/ MutexDrop

Runs(t) ==
    \/ compare_exchange_weak_ok(t) \/ compare_exchange_weak_err(t)
    \/ load_false(t) \/ return(t) \/ drop(t)

Fairness ==
    \A t \in Threads :
       WF_vars(Runs(t)) /\ SF_vars(compare_exchange_weak_ok(t))

SpecMutexFair == MutexInit /\ [][FairNext]_vars /\ Fairness

\* -------------------------------------------------------- instance adapter
\* Allocator for &MuAlloc: what each method hands back for the pointer the
\* engine returned
AllocError == [ok |-> FALSE, ptr |-> NULL, len |-> 0]

alloc_result_whole_cells(ptr, size) ==
    IF ptr # NULL
    THEN [ok |-> TRUE, ptr |-> ptr, len |-> ncells_up(size) * heapcell_size]
    ELSE AllocError

alloc_result(ptr, size) ==
    IF ptr # NULL THEN [ok |-> TRUE, ptr |-> ptr, len |-> size] ELSE AllocError

allocate(h, gb, gs, size, align) ==
    alloc_result(alloc(h, gb, gs, size, align).ptr, size)

Allocator_grow(h, ptr, old_size, new_size, align) ==
    alloc_result(grow(h, ptr, old_size, new_size, align).ptr, new_size)

Allocator_shrink(h, ptr, old_size, new_size, align) ==
    alloc_result(shrink(h, ptr, old_size, new_size, align).ptr, new_size)

Layout(size, align) == [size |-> size, align |-> align]

\* Allocator::grow as it is called, with both layouts: the engine gets
\* old_layout.align() and new_layout.size()
Allocator_grow_layout(h, ptr, old_layout, new_layout) ==
    Allocator_grow(h, ptr, old_layout.size, new_layout.size, old_layout.align)

\* ---------------------------------------------------------- global adapter
\* GlobalAlloc for MuAlloc, called by the threads: alloc and dealloc make
\* their engine call through the guard; realloc chooses by comparing new_size
\* with layout.size()
realloc_never_same(h, ptr, old_size, align, new_size) ==
    IF new_size < old_size
    THEN [op |-> "shrink", r |-> shrink(h, ptr, old_size, new_size, align)]
    ELSE [op |-> "grow", r |-> grow(h, ptr, old_size, new_size, align)]

realloc(h, ptr, old_size, align, new_size) ==
    IF new_size < old_size
    THEN [op |-> "shrink", r |-> shrink(h, ptr, old_size, new_size, align)]
    ELSE IF new_size > old_size
    THEN [op |-> "grow", r |-> grow(h, ptr, old_size, new_size, align)]
    ELSE [op |-> "same", r |-> [h |-> h, ptr |-> ptr]]

\* realloc returned ptr itself: nothing but the caller's record of the call
\* changes
SameReturn(b) ==
    /\ last' = Did("realloc", "same", b.ptr)
    /\ nops' = nops + 1
    /\ UNCHANGED <<given_base, given_size, base, ncells, search_start, cells,
                   status, live, clean, overflow_checks>>

\* the engine call realloc made (x) takes effect, under the guard; without
\* an engine call the thread stays outside lock()
ReallocReturn(t, b, new_size, x) ==
    IF x.op = "same"
    THEN /\ pc[t] = "idle"
         /\ SameReturn(b)
         /\ UNCHANGED <<mutex_vars, under>>
    ELSE /\ pc[t] = "in" /\ guards[t] > 0
         /\ IF x.op = "grow" THEN GrowReturn(b, new_size, x.r)
            ELSE ShrinkReturn(b, new_size, x.r)
         /\ pc' = At(t, "engine")
         /\ UNCHANGED <<atomic, guards, under>>

global_realloc(t, b, new_size) ==
    /\ CanCall /\ nops < MutexOps
    /\ pc[t] \in {"idle", "in"}
    /\ b \in Blocks \/ BagCardinality(live) < MaxLive
    /\ ReallocReturn(t, b, new_size, realloc(Self, b.ptr, b.size, b.align, new_size))

global_alloc(t, size, align) ==
    /\ pc[t] = "in" /\ guards[t] > 0
    /\ nops < MutexOps
    /\ AllocCall(size, align)
    /\ pc' = At(t, "engine")
    /\ UNCHANGED <<atomic, guards, under>>

global_dealloc(t, b) ==
    /\ pc[t] = "in" /\ guards[t] > 0
    /\ nops < MutexOps
    /\ DeallocCall(b)
    /\ pc' = At(t, "engine")
    /\ UNCHANGED <<atomic, guards, under>>

GlobalAlloc == \E t \in Threads, size \in Sizes, align \in Aligns : global_alloc(t, size, align)
GlobalDealloc == \E t \in Threads, b \in Held : global_dealloc(t, b)
GlobalRealloc == \E t \in Threads, b \in Held, new_size \in Sizes : global_realloc(t, b, new_size)

GlobalNext ==
    \/ MutexLock \/ MutexCasOk \/ MutexCasErr \/ MutexLoad
    \/ GlobalAlloc \/ GlobalDealloc \/ GlobalRealloc
    \/ MutexReturn \/ MutexDrop

SpecGlobal == MutexInit /\ [][GlobalNext]_vars

\* ----------------------------------------------------------- two instances
\* a second MuAlloc (under) declared with heap() on a region disjoint from
\* the region of the first: wholly below it, so below MAX_ALIGNMENT, or
\* right behind it.  Memory is one address space: the cell at address a
\* belongs to the first instance's array (cells) when a lies in its window,
\* and to under.cells otherwise.
UnderRegions ==
    {[given_base |-> 4, given_size |-> 100],
     [given_base |-> 4, given_size |-> 124],
     [given_base |-> MAX_ALIGNMENT + HeapCells * heapcell_size,
      given_size |-> HeapCells * heapcell_size]}

UnderSizes == {4}

\* MuAlloc::heap: MuMutex::new(MuHeap::heap(given_base, given_size))
UnderHeap(region) ==
    [given_base |-> region.given_base, given_size |-> region.given_size,
     base |-> 0, ncells |-> 0, search_start |-> 0,
     cells |-> [i \in 0..(HeapCells - 1) |-> <<UNK, UNK, UNK, UNK>>],
     status |-> "ok", atomic |-> FALSE, nops |-> 0]

TwoInit ==
    /\ given_base = MAX_ALIGNMENT
    /\ given_size = HeapCells * heapcell_size
    /\ base = 0
    /\ ncells = 0
    /\ search_start = 0
    /\ cells = [i \in 0..(HeapCells - 1) |-> <<UNK, UNK, UNK, UNK>>]
    /\ status = "ok"
    /\ live = EmptyBag
    /\ last = Did("none", "none", NULL)
    /\ nops = 0
    /\ clean = TRUE
    /\ overflow_checks \in BOOLEAN
    /\ MutexNew
    /\ under \in {UnderHeap(region) : region \in UnderRegions}

\* the address of cell i of under's array, once built or as build_heap is
\* about to place it
UnderBase ==
    IF under.base # 0 THEN under.base
    ELSE adjust_heap(under.given_base, under.given_size).base

\* the cell of the first instance's window at the address of under's cell i
Shared(i) == (UnderBase + i * heapcell_size - given_base) \div heapcell_size

\* under's MuHeap over the memory its cell array covers
UnderSelf ==
    [base |-> under.base, ncells |-> under.ncells,
     search_start |-> under.search_start,
     cells |-> [i \in DOMAIN under.cells |->
                   IF Shared(i) \in DOMAIN cells THEN cells[Shared(i)]
                   ELSE under.cells[i]],
     status |-> under.status, overflow_checks |-> overflow_checks]

\* the first instance's window after under's engine has left memory as h.cells
Window(h) ==
    [j \in DOMAIN cells |->
        IF \E i \in DOMAIN h.cells : Shared(i) = j
        THEN h.cells[CHOOSE i \in DOMAIN h.cells : Shared(i) = j]
        ELSE cells[j]]

\* lock() on under's MuMutex: compare_exchange_weak succeeds
UnderLock ==
    /\ under # Undeclared /\ under.status = "ok"
    /\ under.atomic = FALSE
    /\ under' = [under EXCEPT !.atomic = TRUE]
    /\ UNCHANGED <<heap_vars, mutex_vars>>

\* under's engine has returned r.h
UnderReturn(r) ==
    /\ under' = [under EXCEPT !.base = r.h.base, !.ncells = r.h.ncells,
                              !.search_start = r.h.search_start,
                              !.cells = r.h.cells, !.status = r.h.status,
                              !.nops = @ + 1]
    /\ cells' = IF r.h.base = 0 THEN cells ELSE Window(r.h)

\* an alloc on under, through its guard
UnderAlloc ==
    /\ under # Undeclared /\ under.status = "ok"
    /\ under.atomic = TRUE /\ under.nops < UnderOps
    /\ \E size \in UnderSizes, align \in Aligns :
          UnderReturn(alloc(UnderSelf, under.given_base, under.given_size, size, align))
    /\ UNCHANGED <<given_base, given_size, base, ncells, search_start, status,
                   live, last, nops, clean, overflow_checks, mutex_vars>>

\* under's guard is dropped
UnderDrop ==
    /\ under # Undeclared /\ under.status = "ok"
    /\ under.atomic = TRUE
    /\ under' = [under EXCEPT !.atomic = FALSE]
    /\ UNCHANGED <<heap_vars, mutex_vars>>

TwoNext ==
    \/ MutexLock \/ MutexCasOk \/ MutexCasErr \/ MutexLoad
    \/ MutexCall \/ MutexReturn \/ MutexDrop
    \/ UnderLock \/ UnderAlloc \/ UnderDrop

SpecTwo == TwoInit /\ [][TwoNext]_vars

\* ------------------------------------------------------ consistency checks
\* the engine as compiled with DEBUG_HEAP and DEBUG_CHECK_PTR true: dealloc,
\* grow and shrink run debug_check_ptr on their arguments first.  The
\* debug_assert!s of the public methods are compiled in by the dev profile,
\* which also compiles the overflow checks in, and left out by the release
\* profile.  The checks made after the cells are written are left out here.
debug_assertions(h) == h.overflow_checks

\* debug_check_ptr once nxt_i = cells[cur_i].next has been read
CheckRun(h, cur_i, nxt_i, size, align) ==
    IF Bad(nxt_i) THEN Fail(h, nxt_i)
    ELSE IF ~(nxt_i > 0 /\ nxt_i < h.ncells) THEN Panic(h)
    ELSE IF Bad(GetPrev(h, nxt_i)) THEN Fail(h, GetPrev(h, nxt_i))
    ELSE IF GetPrev(h, nxt_i) # cur_i THEN Panic(h)
    ELSE IF ncells_up(size) # nxt_i - cur_i - 1 THEN Panic(h)
    ELSE IF cell_to_ptr(h, cur_i) # round_up(cell_to_ptr(h, cur_i), align) THEN Panic(h)
    ELSE h

debug_check_ptr(h, ptr, cur_i, size, align) ==
    IF ptr <= h.base THEN Panic(h)
    ELSE IF ncells_down(ptr - h.base) * heapcell_size # ptr - h.base THEN Panic(h)
    ELSE IF ~(ncells_down(ptr - h.base) > 0 /\ ncells_down(ptr - h.base) < h.ncells)
    THEN Panic(h)
    ELSE IF ~(cur_i >= 0 /\ cur_i < h.ncells) THEN Panic(h)
    ELSE CheckRun(h, cur_i, GetNext(h, cur_i), size, align)

ptr_to_cell_checked(h, ptr, size, align) ==
    debug_check_ptr(h, ptr, ptr_to_cell(h, ptr), size, align)

\* debug_assert_eq!(ptr as usize, align) of the size 0 branches
ZeroChecked(h, ptr, align) ==
    IF debug_assertions(h) /\ ptr # align THEN Panic(h) ELSE h

dealloc_checked(h, ptr, size, align) ==
    IF size = 0 THEN ZeroChecked(h, ptr, align)
    ELSE IF ~Ok(ptr_to_cell_checked(h, ptr, size, align))
    THEN ptr_to_cell_checked(h, ptr, size, align)
    ELSE do_dealloc(h, ptr, size, align)

grow_checked(h, old_ptr, old_size, new_size, align) ==
    IF old_size = 0
    THEN IF ~Ok(ZeroChecked(h, old_ptr, align)) THEN ZeroChecked(h, old_ptr, align)
         ELSE do_alloc(h, new_size, align).h
    ELSE IF ~Ok(ptr_to_cell_checked(h, old_ptr, old_size, align))
    THEN ptr_to_cell_checked(h, old_ptr, old_size, align)
    ELSE do_grow(h, old_ptr, old_size, new_size, align).h

shrink_checked(h, ptr, old_size, new_size, align) ==
    IF old_size = 0 THEN ZeroChecked(h, ptr, align)
    ELSE IF ~Ok(ptr_to_cell_checked(h, ptr, old_size, align))
    THEN ptr_to_cell_checked(h, ptr, old_size, align)
    ELSE do_shrink(h, ptr, old_size, new_size, align).h

\* the arguments a caller holding block b can get wrong: a size of another
\* cell count, an align the address is no multiple of, the address of the
\* cell behind the first data cell
Mismatches(b) ==
    {[ptr |-> b.ptr, size |-> s, align |-> b.align] :
        s \in {t \in Sizes : ncells_up(t) # ncells_up(b.size)}}
    \cup {[ptr |-> b.ptr, size |-> b.size, align |-> a] :
        a \in {c \in {8, 16} : b.ptr % c # 0}}
    \cup {[ptr |-> b.ptr + heapcell_size, size |-> b.size, align |-> b.align]}

CheckedInit ==
    /\ given_base = MAX_ALIGNMENT
    /\ given_size = HeapCells * heapcell_size
    /\ base = 0
    /\ ncells = 0
    /\ search_start = 0
    /\ cells = [i \in 0..(HeapCells - 1) |-> <<UNK, UNK, UNK, UNK>>]
    /\ status = "ok"
    /\ live = EmptyBag
    /\ last = Did("none", "none", NULL)
    /\ nops = 0
    /\ clean = TRUE
    /\ overflow_checks \in BOOLEAN
    /\ MutexNew
    /\ under = Undeclared

\* a call with mismatching arguments has left the heap h
MisReturn(op, h) ==
    /\ Commit(h, live, {})
    /\ last' = Did(op, "mismatch", NULL)
    /\ clean' = FALSE
    /\ UNCHANGED <<mutex_vars, under>>

MisDeallocCall(m) ==
    /\ status = "ok" /\ clean /\ nops < BandOps
    /\ MisReturn("dealloc", dealloc_checked(Self, m.ptr, m.size, m.align))

MisGrowCall(m) ==
    /\ status = "ok" /\ clean /\ nops < BandOps
    /\ MisReturn("grow", grow_checked(Self, m.ptr, m.size, MaxSize, m.align))

MisShrinkCall(m) ==
    /\ status = "ok" /\ clean /\ nops < BandOps
    /\ MisReturn("shrink", shrink_checked(Self, m.ptr, m.size, 0, m.align))

MisDealloc == \E b \in Blocks : \E m \in Mismatches(b) : MisDeallocCall(m)
MisGrow == \E b \in Blocks : \E m \in Mismatches(b) : MisGrowCall(m)
MisShrink == \E b \in Blocks : \E m \in Mismatches(b) : MisShrinkCall(m)

CheckedNext ==
    BandAlloc \/ BandDealloc \/ BandGrow \/ BandShrink \/ Store
    \/ MisDealloc \/ MisGrow \/ MisShrink

SpecChecked == CheckedInit /\ [][CheckedNext]_vars

\* ------------------------------------------------------------------ claims
\* the cells of a block: its management cell and its data cells
CellsOf(b) ==
    IF b.size = 0 THEN {}
    ELSE ptr_to_cell(Self, b.ptr)..(ptr_to_cell(Self, b.ptr) + ncells_up(b.size))

DataCellsOf(b) == CellsOf(b) \ {ptr_to_cell(Self, b.ptr)}

\* the heap after the step
SelfNext == [base |-> base', ncells |-> ncells', search_start |-> search_start',
             cells |-> cells', status |-> status',
             overflow_checks |-> overflow_checks']

\* the heap a call works on: alloc builds it first if base is 0
Built == IF base = 0 THEN build_heap(Self, given_base, given_size) ELSE Self

\* the run list: every boundary cell reached from cell 0 with its next field
\* (> 0 in use, < 0 free, 0 the terminal free run)
RunList(h) == {<<i, GetNext(h, i)>> : i \in Walk(h, 0, h.ncells)}

InUseRuns(h) == {r \in RunList(h) : r[2] > 0 /\ r[2] < OOB}

\* the cells of the free runs of the list, boundary cell included
FreeCells(h) ==
    UNION {r[1]..((IF r[2] < 0 THEN Not(r[2]) ELSE h.ncells) - 1) :
              r \in {q \in RunList(h) : q[2] <= 0}}

\* C1: a grow (old_size > 0) that cannot extend in place and whose fallback
\* allocation fails returns null and leaves the run list (every cell),
\* search_start and so the old block as they were before the call.
C1_FailedGrowKeepsOldBlock ==
    [][(last'.op = "grow" /\ last'.path = "failed")
         => (status' = "ok" /\ cells' = cells /\ search_start' = search_start)]_vars

\* C2: every block handed out for a size > 0 lies at an address that is a
\* multiple of the alignment it was requested with, whatever the base.
C2_AddressAligned ==
    \A b \in Blocks : b.size > 0 => b.ptr % b.align = 0

\* C3: the cells of two blocks the caller holds never overlap, and no run
\* boundary of the list lies inside the data cells of a block it holds.
C3_Disjoint ==
    status = "ok" =>
        /\ \A b \in Blocks : CopiesIn(b, live) > 1 => CellsOf(b) = {}
        /\ \A b1, b2 \in Blocks : b1 # b2 => CellsOf(b1) \cap CellsOf(b2) = {}
        /\ \A b \in Blocks : DataCellsOf(b) \cap Walk(Self, 0, ncells) = {}

\* the run after block b is free and, with b's run, has room for n bytes:
\* a bounded free run up to its far boundary, or the terminal run up to the
\* last cell of the array (which becomes the new end boundary)
CanExtend(b, n, cur_i, nxt_i, far_val) ==
    /\ cur_i \in Walk(Self, 0, ncells)
    /\ nxt_i > cur_i /\ ~Bad(nxt_i)
    /\ far_val <= 0
    /\ cur_i + ncells_up(n) + 1 <= (IF far_val < 0 THEN Not(far_val) ELSE ncells - 1)

ExtendsInPlace(b, n) ==
    (/\ b.size > 0
     /\ CanExtend(b, n, ptr_to_cell(Self, b.ptr),
                  GetNext(Self, ptr_to_cell(Self, b.ptr)),
                  GetNext(Self, GetNext(Self, ptr_to_cell(Self, b.ptr))))
     /\ GrowCall(b, n))
    => (/\ status' = "ok"
        /\ last'.path = "inplace"
        /\ Block(b.ptr, n, b.align) \in BagToSet(live')
        /\ BlockBytes(SelfNext, b.ptr, b.size) = BlockBytes(Self, b.ptr, b.size))

\* C4: a grow of a block (old size > 0) whose following run is free, bounded
\* or terminal, and large enough together with the block, returns the same
\* pointer, copies nothing and leaves the first old-size bytes unchanged.
C4_GrowInPlace ==
    [][\A b \in Blocks, n \in Sizes : ExtendsInPlace(b, n)]_vars

\* no free run of the list, the terminal run up to the array end included,
\* has req data cells after its alignment-adjusted start
NoRunFits(h, req, align) ==
    \A r \in RunList(h) :
        r[2] <= 0 =>
            (IF r[2] < 0 THEN Not(r[2]) ELSE h.ncells) - align_cell(r[1], align) - 1 < req

FailedAllocChangesNothing(size, align) ==
    (/\ size > 0
     /\ AllocCall(size, align)
     /\ NoRunFits(Built, ncells_up(size), align) \/ last'.path = "nofit")
    => (/\ status' = "ok"
        /\ last'.path = "nofit"
        /\ cells' = Built.cells
        /\ search_start' = Built.search_start
        /\ live' = live)

C7_FullCoalescing ==
    (clean /\ status = "ok" /\ base # 0 /\ live = EmptyBag) => GetNext(Self, 0) = 0

SameRuns(h0, h1) ==
    /\ Ok(h1)
    /\ RunList(h1) = RunList(h0)
    /\ Cardinality(InUseRuns(h1)) = Cardinality(InUseRuns(h0))

RoundTrip(size, align, a) ==
    a.ptr # NULL => SameRuns(Built, dealloc(a.h, a.ptr, size, align))

\* C8: a successful alloc (size > 0) followed at once by the dealloc of the
\* block it returned gives back the run list (boundaries, in use or free) and
\* the number of in-use runs of before the alloc.
C8_RoundTrip ==
    status = "ok" =>
        \A size \in Sizes \ {0}, align \in Aligns :
            RoundTrip(size, align, alloc(Self, given_base, given_size, size, align))

MovedTo(b, r) ==
    /\ status' = "ok"
    /\ r.ptr # b.ptr
    /\ BlockBytes(SelfNext, r.ptr, b.size) = BlockBytes(Self, b.ptr, b.size)
    /\ CellsOf(b) \subseteq FreeCells(SelfNext)

GrowMoves(b, n) ==
    (b.size > 0 /\ GrowCall(b, n) /\ last'.path = "moved")
    => MovedTo(b, grow(Self, b.ptr, b.size, n, b.align))

\* C9: a grow that cannot extend in place and whose fallback allocation
\* succeeds returns another pointer whose first old-size bytes are the old
\* block's bytes, and afterwards the old block's cells are free.
C9_GrowMoves ==
    [][\A b \in Blocks, n \in Sizes : GrowMoves(b, n)]_vars

Cut(b, n, cur_i, end_i, cut_val) ==
    /\ status' = "ok"
    /\ Block(b.ptr, n, b.align) \in BagToSet(live')
    /\ GetNext(SelfNext, cur_i) = end_i
    /\ end_i < GetNext(Self, cur_i) =>
          /\ cut_val <= 0
          /\ cut_val < 0 => GetNext(SelfNext, Not(cut_val)) > 0
    /\ BlockBytes(SelfNext, b.ptr, n) = BlockBytes(Self, b.ptr, n)

Shrinks(b, n) ==
    (b.size > 0 /\ ShrinkCall(b, n))
    => Cut(b, n, ptr_to_cell(Self, b.ptr),
           ptr_to_cell(Self, b.ptr) + ncells_up(n) + 1,
           GetNext(SelfNext, ptr_to_cell(Self, b.ptr) + ncells_up(n) + 1))

FitsAfter(b, size, end_i) ==
    ncells - align_cell(end_i, b.align) - 2 >= ncells_up(size)

AddressAfter(b, end_i) == cell_to_ptr(Self, align_cell(end_i, b.align))

ReuseAt(b, end_i) ==
    IF FitsAfter(b, ScriptSizes.C, end_i) THEN AddressAfter(b, end_i) ELSE last.ret

\* C5 as stated: in the scenario the address of C is the address A had.
C5_ReusesFirstHole ==
    [][(nops = 3 /\ nops' = 4) => last'.ret = last.ret]_vars

\* C5 amended: the address of C is the address A had only when the terminal
\* free run after B cannot hold C; when it can, C lies in that run, after B,
\* because the scan starts at search_start, which the dealloc of A left at
\* the end of B.
C5_ReusesHoleOnlyWhenTailFull ==
    [][(nops = 3 /\ nops' = 4) =>
          \A b \in Blocks :
              last'.ret = ReuseAt(b, GetNext(Self, ptr_to_cell(Self, b.ptr)))]_vars

\* C is placed after B although the hole A left could hold it
C5_PlacedAfterB ==
    /\ nops = 4 /\ status = "ok"
    /\ \E b, c \in Blocks :
          b.size = ScriptSizes.B /\ c.size = ScriptSizes.C /\ c.ptr > b.ptr

RECURSIVE ScanOrder(_, _, _, _)
\* the run heads in scan order: from cell cur_i along the next links to the
\* terminal run, then from cell 0, until the scan is back at start
ScanOrder(h, start, cur_i, fuel) ==
    IF fuel = 0 \/ Bad(GetNext(h, cur_i)) THEN <<cur_i>>
    ELSE IF (IF GetNext(h, cur_i) > 0 THEN GetNext(h, cur_i)
             ELSE IF GetNext(h, cur_i) < 0 THEN Not(GetNext(h, cur_i)) ELSE 0) = start
    THEN <<cur_i>>
    ELSE <<cur_i>> \o ScanOrder(h, start,
                                IF GetNext(h, cur_i) > 0 THEN GetNext(h, cur_i)
                                ELSE IF GetNext(h, cur_i) < 0 THEN Not(GetNext(h, cur_i))
                                ELSE 0,
                                fuel - 1)

\* the cells of the free run at cur_i after its alignment-adjusted start, up
\* to the next boundary or, for the terminal run, the end of the array
RoomAfter(h, cur_i, align) ==
    (IF GetNext(h, cur_i) < 0 THEN Not(GetNext(h, cur_i)) ELSE h.ncells)
        - align_cell(cur_i, align) - 1

\* the positions in the scan order of the free runs with room for req cells
Fitting(h, order, req, align) ==
    {k \in DOMAIN order :
        GetNext(h, order[k]) <= 0 /\ RoomAfter(h, order[k], align) >= req}

FirstOf(S) == CHOOSE k \in S : \A j \in S : k <= j

PlacedInFirst(h, order, fit, align) ==
    fit # {} =>
        last'.ret = cell_to_ptr(h, align_cell(order[FirstOf(fit)], align))

FirstFit(size, align, h, order) ==
    (size > 0 /\ AllocCall(size, align))
    => PlacedInFirst(h, order, Fitting(h, order, ncells_up(size), align), align)

\* C11: an alloc (size > 0) places the block in the first free run, in scan
\* order from search_start wrapping to cell 0, whose part after the
\* alignment-adjusted start has ceil(size / cell size) cells.
C11_FirstFit ==
    [][\A size \in Sizes, align \in Aligns :
          FirstFit(size, align, Built,
                   ScanOrder(Built, Built.search_start, Built.search_start,
                             Built.ncells + 1))]_vars

\* RoomAfter, less the cell the terminal run gives up for the end boundary of
\* the block placed in it
UsableAfter(h, cur_i, align) ==
    RoomAfter(h, cur_i, align) - (IF GetNext(h, cur_i) = 0 THEN 1 ELSE 0)

Usable(h, order, req, align) ==
    {k \in DOMAIN order :
        GetNext(h, order[k]) <= 0 /\ UsableAfter(h, order[k], align) >= req}

FirstUsable(size, align, h, order) ==
    (size > 0 /\ AllocCall(size, align))
    => PlacedInFirst(h, order, Usable(h, order, ncells_up(size), align), align)

\* C11 amended: as C11, the terminal run counting as fitting only when it
\* has one cell more than the request, the one that becomes the end boundary.
C11_FirstFitWithEndCell ==
    [][\A size \in Sizes, align \in Aligns :
          FirstUsable(size, align, Built,
                      ScanOrder(Built, Built.search_start, Built.search_start,
                                Built.ncells + 1))]_vars

\* an alloc has placed a block below a block the caller already held: the
\* scan had a hole and the runs behind it to choose from
C11_PlacedInHole ==
    /\ clean /\ status = "ok"
    /\ last.op = "alloc" /\ last.path = "fit"
    /\ \E b \in Blocks : b.size > 0 /\ b.ptr > last.ret

ZeroAlloc(align, r) ==
    (base # 0 /\ AllocCall(0, align))
    => (r.ptr = align /\ r.h = Self /\ status' = "ok")

ZeroDealloc(align) ==
    (base # 0 /\ DeallocCall(Block(align, 0, align)))
    => (dealloc(Self, align, 0, align) = Self /\ status' = "ok")

\* C12: on a built heap alloc(0, align) returns the value of align, and
\* neither it nor the paired dealloc(align, 0, align) changes a cell of the
\* array or search_start.
C12_ZeroSize ==
    [][\A align \in Aligns :
          /\ ZeroAlloc(align, alloc(Self, given_base, given_size, 0, align))
          /\ ZeroDealloc(align)]_vars

\* a zero-size dealloc has just returned on a heap with a block in it
C12_ZeroDeallocDone ==
    /\ status = "ok" /\ base # 0
    /\ last.op = "dealloc" /\ last.path = "zero"
    /\ \E b \in Blocks : b.size > 0

SameAsAlloc(g, a) == g.ptr = a.ptr /\ g.h = a.h

GrowFromZeroIsAlloc(b, n) ==
    (b.size = 0 /\ GrowCall(b, n))
    => SameAsAlloc(grow(Self, b.ptr, 0, n, b.align),
                   alloc(Self, given_base, given_size, n, b.align))

\* C13: a grow with old_size 0 returns the pointer alloc(new_size, align)
\* returns in the same state and leaves the heap as that alloc leaves it,
\* for every new_size >= 0, new_size 0 included.
C13_GrowFromZeroIsAlloc ==
    [][\A b \in Held, n \in Sizes : GrowFromZeroIsAlloc(b, n)]_vars

\* C14: every block handed out for a size > 0 lies above the reserved band
\* MAX_ALIGNMENT, whatever the given base, so its address is never the
\* sentinel a zero-size alloc returns.
C14_AboveBand ==
    \A b \in Blocks :
        b.size > 0 => (b.ptr > MAX_ALIGNMENT /\ \A a \in Aligns : b.ptr # a)

\* a block of size > 0 is held on an area given below the band
C14_BlockOnLowBase ==
    /\ status = "ok" /\ given_base < MAX_ALIGNMENT
    /\ \E b \in Blocks : b.size > 0

WideAllocFails(size, align, r) ==
    AllocCall(size, align) => (status' = "ok" /\ r.ptr = NULL /\ r.h = Built)

WideGrowFails(b, size, r) ==
    GrowCall(b, size) => (status' = "ok" /\ r.ptr = NULL /\ r.h = Self)

\* C15: an alloc or grow whose size needs I::MAX cells or more returns
\* failure and leaves the heap as it was; no index sum overflows or wraps.
C15_WideRequestFails ==
    [][/\ \A size \in WideSizes, align \in Aligns :
             WideAllocFails(size, align,
                            alloc(Self, given_base, given_size, size, align))
       /\ \A b \in Held, size \in WideSizes :
             WideGrowFails(b, size, grow(Self, b.ptr, b.size, size, b.align))]_vars

\* the threads holding a MuMutexGuard, and those inside an engine call
Holders == {t \in Threads : guards[t] > 0}

InEngine == {t \in Threads : pc[t] = "engine"}

Spinning == {t \in Threads : pc[t] \in {"cas", "load"}}

\* C16: at most one MuMutexGuard exists at any time, and a thread inside an
\* engine call holds it: engine calls of different threads never overlap, so
\* they take effect one after the other
C16_OneGuard ==
    /\ Cardinality(Holders) <= 1
    /\ \A t \in Threads : guards[t] <= 1
    /\ InEngine \subseteq Holders

\* one thread is inside the second engine call of the run while another
\* thread spins in lock()
C16_Contended ==
    \E t \in InEngine : nops = 2 /\ Spinning \ {t} # {}

\* a thread whose adapter call has returned: it is outside lock() again
Returned == {t \in Threads : pc[t] = "idle"}

\* C17: the flag is true exactly while a guard exists; a thread whose adapter
\* call returned, with a pointer or with a failure, holds no guard; and when
\* no guard exists the compare_exchange_weak of a following lock() can take
\* the lock
C17_FreeAfterReturn ==
    /\ atomic <=> (Holders # {})
    /\ \A t \in Returned : guards[t] = 0
    /\ Holders = {} =>
          \A t \in Threads : pc[t] = "cas" => ENABLED compare_exchange_weak_ok(t)

\* an alloc that found no fit has returned, the lock is free, and a thread
\* is at the compare_exchange_weak of the following lock()
C17_FailedCallReturned ==
    /\ last.op = "alloc" /\ last.path = "nofit"
    /\ Holders = {} /\ atomic = FALSE
    /\ \E t \in Returned, u \in Threads : pc[u] = "cas"

\* a thread inside a second lock() while it holds the guard of the first
Reentered(t) == guards[t] > 0 /\ pc[t] \in {"cas", "load"}

\* C18: once a thread is inside lock() while holding the guard, every later
\* step leaves it there, leaves the flag true and gives no thread a guard
C18_SelfDeadlock ==
    [][\A t \in Threads :
          Reentered(t) =>
             /\ atomic /\ atomic'
             /\ guards' = guards
             /\ pc'[t] \in {"cas", "load"}]_vars

\* the holder has failed the compare_exchange_weak of its second lock() and
\* reads the flag in the inner loop, while another thread spins as well
C18_BothSpin ==
    \E t \in Threads :
       /\ Reentered(t) /\ pc[t] = "load"
       /\ Spinning \ {t} # {}

\* C19 as stated: each thread spinning in lock() eventually gets the guard
C19_EachGetsGuard ==
    \A t \in Threads : (t \in Spinning) ~> (t \in Holders)

\* C19: when threads spin in lock() and no guard exists, some thread
\* eventually gets the guard, and every guard is eventually dropped; which
\* thread wins is not decided, a given thread can lose every time
C19_SomeGetsGuard ==
    /\ (Spinning # {} /\ Holders = {}) ~> (Holders # {})
    /\ \A t \in Threads : (t \in Holders) ~> (t \notin Holders)

\* every thread spins in lock() after an engine call took effect, and no
\* guard exists
C19_AllSpin ==
    /\ Spinning = Threads /\ Holders = {}
    /\ nops > 0

\* alloc returns null exactly when the scan finds no usable free run
NullIffNoFit(t, size, align, h, order) ==
    (global_alloc(t, size, align) /\ status' = "ok")
    => /\ (alloc(Self, given_base, given_size, size, align).ptr = NULL)
             <=> (size > 0 /\ Usable(h, order, ncells_up(size), align) = {})
       /\ last'.path = "nofit"
             <=> (alloc(Self, given_base, given_size, size, align).ptr = NULL)

\* realloc makes the engine's shrink or grow call under the guard, or none
Dispatches(t, b, new_size) ==
    global_realloc(t, b, new_size)
    => IF new_size < b.size
       THEN /\ guards[t] > 0 /\ last'.op = "shrink"
            /\ realloc(Self, b.ptr, b.size, b.align, new_size).r
                  = shrink(Self, b.ptr, b.size, new_size, b.align)
       ELSE IF new_size > b.size
       THEN /\ guards[t] > 0 /\ last'.op = "grow"
            /\ realloc(Self, b.ptr, b.size, b.align, new_size).r
                  = grow(Self, b.ptr, b.size, new_size, b.align)
       ELSE /\ guards[t] = 0
            /\ last' = Did("realloc", "same", b.ptr)
            /\ UNCHANGED <<mutex_vars, base, ncells, search_start, cells,
                           status, live>>

\* C20: GlobalAlloc::alloc returns null exactly when no free run has room,
\* and a non-null pointer otherwise; realloc is the engine's shrink for a
\* smaller new_size, its grow for a larger one, and for an equal one returns
\* ptr holding no guard and changing neither the lock nor the heap
C20_GlobalAdapter ==
    [][/\ \A t \in Threads, size \in Sizes, align \in Aligns :
             NullIffNoFit(t, size, align, Built,
                          ScanOrder(Built, Built.search_start, Built.search_start,
                                    Built.ncells + 1))
       /\ \A t \in Threads, b \in Held, new_size \in Sizes :
             Dispatches(t, b, new_size)]_vars

\* a realloc to the size the block has returned while another thread held
\* the lock
C20_SameSizeWhileLocked ==
    /\ last.op = "realloc" /\ last.path = "same"
    /\ last.ret > MAX_ALIGNMENT
    /\ atomic = TRUE

\* res is what the adapter must hand back for the engine's pointer e and the
\* requested size
ResultOf(res, e, size) ==
    /\ res.ok <=> (e # NULL)
    /\ res.ok => (res.ptr = e /\ res.len = size)
    /\ ~res.ok => res = AllocError

AllocateResult(size, align) ==
    (AllocCall(size, align) /\ status' = "ok")
    => /\ ResultOf(allocate(Self, given_base, given_size, size, align),
                   alloc(Self, given_base, given_size, size, align).ptr, size)
       /\ size = 0 =>
             allocate(Self, given_base, given_size, size, align)
                = [ok |-> TRUE, ptr |-> align, len |-> 0]

GrowResultOf(b, n) ==
    (GrowCall(b, n) /\ status' = "ok")
    => ResultOf(Allocator_grow(Self, b.ptr, b.size, n, b.align),
                grow(Self, b.ptr, b.size, n, b.align).ptr, n)

ShrinkResultOf(b, n) ==
    (ShrinkCall(b, n) /\ status' = "ok")
    => ResultOf(Allocator_shrink(Self, b.ptr, b.size, n, b.align),
                shrink(Self, b.ptr, b.size, n, b.align).ptr, n)

\* C21: allocate, grow and shrink hand back Ok with the engine's pointer and
\* the requested size as length exactly when the engine's pointer is not
\* null, Err(AllocError) exactly when it is null; allocate of size 0 hands
\* back Ok with the value of align and length 0
C21_InstanceAdapter ==
    [][/\ \A size \in Sizes, align \in Aligns : AllocateResult(size, align)
       /\ \A b \in Held, n \in Sizes :
             GrowResultOf(b, n) /\ ShrinkResultOf(b, n)]_vars

\* a grow has handed back a block whose length is not a whole number of
\* cells, after an allocate had failed
C21_OddLength ==
    /\ status = "ok" /\ ~clean
    /\ last.op = "grow" /\ last.path \in {"inplace", "moved", "delegate"}
    /\ \E b \in Blocks : b.size % heapcell_size # 0

\* what an instance is to the other: its MuHeap fields, its cells, its flag
First == <<base, ncells, search_start, cells, status, atomic>>

Second == <<under.base, under.ncells, under.search_start, under.cells,
            under.status, under.atomic>>

Unbuilt ==
    /\ base = 0 /\ ncells = 0 /\ search_start = 0
    /\ \A i \in DOMAIN cells : cells[i] = <<UNK, UNK, UNK, UNK>>

\* h has the base and ncells adjust_heap computes from the given area and
\* cell 0 as the one terminal free run
FreshHeap(h) ==
    /\ h.base = adjust_heap(given_base', given_size').base
    /\ h.ncells = adjust_heap(given_base', given_size').ncells
    /\ h.search_start = 0
    /\ GetPrev(h, 0) = 0 /\ GetNext(h, 0) = 0

\* C23: until the first alloc or set_heap the instance has base, ncells and
\* search_start 0 and no byte of memory written; the step that builds it is
\* that alloc or set_heap: set_heap leaves the fresh heap, and alloc serves
\* the request from the fresh heap
C23_BuiltOnFirstUse ==
    [][base = 0 =>
          /\ Unbuilt
          /\ base' # 0
          /\ last'.op \in {"alloc", "set_heap"}
          /\ last'.op = "set_heap" => FreshHeap(SelfNext)
          /\ last'.op = "alloc" =>
                /\ FreshHeap(Built)
                /\ \E size \in Sizes, align \in Aligns :
                      /\ AllocCall(size, align)
                      /\ alloc(Self, given_base, given_size, size, align)
                            = alloc_built(Built, size, align)]_vars

\* an instance declared with noheap() has been given its area by set_heap and
\* has served no allocation yet
C23_SetHeapDone ==
    /\ last.op = "set_heap" /\ status = "ok"
    /\ base # 0 /\ GetNext(Self, 0) = 0 /\ live = EmptyBag

\* the call halted on an assertion with the heap as it was
Halted(h) == h = Panic(Self)

\* C24: with the consistency checks compiled in, a dealloc, grow or shrink
\* whose size has another cell count than the block's run, whose align the
\* address is no multiple of, or whose pointer is not the first data cell of
\* an in-use run halts on an assertion before any cell or search_start is
\* written
C24_MismatchHalts ==
    [][\A b \in Blocks : \A m \in Mismatches(b) :
          /\ MisDeallocCall(m) => Halted(dealloc_checked(Self, m.ptr, m.size, m.align))
          /\ MisGrowCall(m) => Halted(grow_checked(Self, m.ptr, m.size, MaxSize, m.align))
          /\ MisShrinkCall(m) => Halted(shrink_checked(Self, m.ptr, m.size, 0, m.align))]_vars

\* an alloc of size > 0 returns failure only when no free run of the list
\* has room (as measured by Room) for the request
FailsOnlyWithout(size, align, h, Room(_, _, _)) ==
    (size > 0 /\ AllocCall(size, align) /\ last'.path = "nofit")
    => \A r \in RunList(h) :
          r[2] <= 0 => Room(h, r[1], align) < ncells_up(size)

\* C25: an alloc (size > 0) returns failure only when no free run of the
\* list, the terminal run up to the array end included, has
\* ceil(size / cell size) free cells after its alignment-adjusted start.
C25_FailsOnlyWhenNoRoom ==
    [][\A size \in Sizes, align \in Aligns :
          FailsOnlyWithout(size, align, Built, RoomAfter)]_vars

\* C25 amended: as C25, the terminal run counting only the cells that remain
\* once one is set aside for the end boundary of the block; every run of the
\* list, the one just before search_start included, is examined.
C25_FailsOnlyWhenNoUsableRoom ==
    [][\A size \in Sizes, align \in Aligns :
          FailsOnlyWithout(size, align, Built, UsableAfter)]_vars

\* an alloc has failed with search_start in the middle of the list and a free
\* run below it: the scan went on from cell 0 after the terminal run and
\* examined that run before it was back at search_start
C25_FailedAfterWrap ==
    /\ clean = FALSE /\ status = "ok"
    /\ last.op = "alloc" /\ last.path = "nofit"
    /\ search_start > 0
    /\ \E r \in RunList(Self) : r[2] < 0 /\ r[1] < search_start

RECURSIVE Ascends(_, _, _)
\* from boundary i the next links give strictly increasing indices below
\* ncells and end at a cell with next == 0
Ascends(h, i, fuel) ==
    IF fuel = 0 \/ ~InB(h, i) \/ Bad(GetNext(h, i)) THEN FALSE
    ELSE IF GetNext(h, i) = 0 THEN TRUE
    ELSE /\ (IF GetNext(h, i) > 0 THEN GetNext(h, i) ELSE Not(GetNext(h, i))) > i
         /\ Ascends(h, IF GetNext(h, i) > 0 THEN GetNext(h, i) ELSE Not(GetNext(h, i)),
                    fuel - 1)

\* alloc, dealloc, grow or shrink has just returned on a built heap
AfterOp ==
    base # 0 /\ status = "ok" /\ last.op \in {"alloc", "dealloc", "grow", "shrink"}

\* C26: after build and every public operation the next links from cell 0
\* give strictly increasing indices below ncells and end at a cell with
\* next == 0.
C26_ListCoversArray == AfterOp => Ascends(Self, 0, ncells)

\* C27: after every public operation no two consecutive runs of the list are
\* both free.
C27_NoAdjacentFree ==
    AfterOp => \A r, q \in RunList(Self) :
                  (r[2] < 0 /\ r[1] < q[1] /\ q[1] = Not(r[2])) => q[2] > 0

\* C28: after every public operation search_start is a run boundary reached
\* by the traversal from cell 0.
C28_SearchStartOnBoundary ==
    AfterOp => search_start \in Walk(Self, 0, ncells)

\* the prev field of the boundary that follows the run with head i
Linked(h, i, next_val) ==
    IF next_val > 0 THEN InB(h, next_val) /\ GetPrev(h, next_val) = i
    ELSE IF next_val < 0
    THEN InB(h, Not(next_val)) /\ GetPrev(h, Not(next_val)) = Not(i)
    ELSE GetPrev(h, i) >= 0 /\ ~Bad(GetPrev(h, i))

\* C29: after every public operation the boundary after an in-use run with
\* head i has prev == i, the one after a free run has prev == ~i, cell 0 has
\* prev == 0 and the head of the terminal free run has prev >= 0.
C29_DoublyLinked ==
    AfterOp => /\ GetPrev(Self, 0) = 0
               /\ \A r \in RunList(Self) : ~Bad(r[2]) /\ Linked(Self, r[1], r[2])

\* C30: alloc, dealloc, grow and shrink terminate in every reachable state:
\* neither the scan of do_alloc nor a merge loop of free_cells runs for ever.
C30_Terminates == status # "hang"

SameCellsGrow(b, n) ==
    (/\ b.size > 0
     /\ ncells_up(n) = ncells_up(b.size)
     /\ clean
     /\ GrowCall(b, n))
    => (/\ grow(Self, b.ptr, b.size, n, b.align).ptr = b.ptr
        /\ status' = "ok"
        /\ RunList(Self)' = RunList(Self))

\* C31: a grow (old_size > 0) to a size with the same number of cells, on a
\* heap every earlier call succeeded on, returns ptr and leaves the run list
\* as it was, whatever run follows the block.
C31_SameCellsGrowInPlace ==
    [][\A b \in Blocks, n \in Sizes : SameCellsGrow(b, n)]_vars

\* C32: after public operations that all succeeded, shrink to size 0 and grow
\* from size 0 to size 0 included, every in-use run of the list has at least
\* one data cell.
C32_NoEmptyInUseRun ==
    (AfterOp /\ clean) => \A r \in InUseRuns(Self) : r[2] - r[1] - 1 > 0

\* the data cells of the run whose data starts at ptr
DataCells(h, ptr) == GetNext(h, ptr_to_cell(h, ptr)) - ptr_to_cell(h, ptr) - 1

EndOf(h, r) == IF r[2] > 0 THEN r[2] ELSE IF r[2] < 0 THEN Not(r[2]) ELSE h.ncells

\* the heads of the free runs of h that have cell i behind their head
FreeHeadsBefore(h, i) ==
    {r[1] : r \in {q \in RunList(h) : q[2] <= 0 /\ q[1] < i /\ i < EndOf(h, q)}}

\* the heap after the step
SelfAfter ==
    [Self EXCEPT !.base = base', !.ncells = ncells', !.search_start = search_start',
                 !.cells = cells', !.status = status']

\* an alloc that placed the block b at bgn_i behind the head cur_i of a free
\* run has left cur_i..bgn_i as a free run and claimed b's cells from bgn_i on
PaddingStaysFree(h, b, bgn_i) ==
    \A cur_i \in FreeHeadsBefore(h, bgn_i) :
        /\ <<cur_i, Not(bgn_i)>> \in RunList(SelfAfter)
        /\ <<bgn_i, bgn_i + ncells_up(b.size) + 1>> \in RunList(SelfAfter)

\* a dealloc of the block at bgn_i, behind a free run with head cur_i, leaves
\* no boundary at bgn_i: the free run with head cur_i now reaches beyond it
PaddingMergedBack(bgn_i, cur_i) ==
    \E r \in RunList(SelfAfter) :
        r[1] = cur_i /\ r[2] <= 0 /\ EndOf(SelfAfter, r) > bgn_i

\* C34: an alloc that starts its block behind the head of a free run, for
\* the alignment, leaves the skipped cells in the list as a free run in front
\* of the block, which has exactly the requested cells; a dealloc of a block
\* with a free run in front of it merges the two.
C34_PaddingIsFreeRun ==
    [][/\ (last'.op = "alloc" /\ last'.path = "fit" /\ nops' = nops + 1)
            => \A b \in BagToSet(live') :
                  (b.ptr = last'.ret /\ live' = Add(live, b))
                  => PaddingStaysFree(Built, b, ptr_to_cell(Built, b.ptr))
       /\ (last'.op = "dealloc" /\ nops' = nops + 1)
            => \A b \in Blocks :
                  (b.size > 0 /\ live' = Remove(live, b)
                     /\ GetPrev(Self, ptr_to_cell(Self, b.ptr)) < 0)
                  => PaddingMergedBack(ptr_to_cell(Self, b.ptr),
                                       Not(GetPrev(Self, ptr_to_cell(Self, b.ptr))))]_vars

GrowAligned(b, n, new_align, res) ==
    (/\ b.size > 0 /\ clean
     /\ new_align >= b.align /\ base % new_align = 0
     /\ GrowCall(b, n))
    => (res.ok => res.ptr % new_align = 0)

\* C35: on a heap whose base is a multiple of new_layout.align(), the
\* adapter's grow(ptr, old_layout, new_layout) hands back on success an
\* address that is a multiple of new_layout.align(), also when it is larger
\* than old_layout.align().
C35_GrowToNewAlign ==
    [][\A b \in Blocks, n \in Sizes, new_align \in Aligns :
          GrowAligned(b, n, new_align,
                      Allocator_grow_layout(Self, b.ptr, Layout(b.size, b.align),
                                            Layout(n, new_align)))]_vars

\* C36: a built heap has base >= given_base, 1 <= ncells <= I::MAX and its
\* cell array ends at or before the end of the given region, for every
\* region it is declared with.
C36_ArrayInsideRegion ==
    (under # Undeclared /\ under.base # 0 /\ under.status = "ok")
    => /\ under.base >= under.given_base
       /\ under.ncells >= 1 /\ under.ncells <= I_MAX
       /\ under.base + under.ncells * heapcell_size
             <= under.given_base + under.given_size

\* an alloc with an alignment no cell of the array can have skips every run
WideAlignSkips(size, align, r) ==
    AllocCall(size, align) => (status' = "ok" /\ r.ptr = NULL /\ r.h = Built)

\* C37: for a power-of-two align whose aligned start index exceeds I::MAX in
\* every run, alloc skips every run and returns failure: no index is
\* truncated or wraps, and no block is claimed at a wrapped index.
C37_WideAlignSkipped ==
    [][\A size \in Sizes \ {0}, align \in WideAligns :
          WideAlignSkips(size, align,
                         alloc(Self, given_base, given_size, size, align))]_vars

\* C38: a thread comes to the compare-exchange of spin_lock only on entry to
\* lock() or from the read-only loop after a load that read false; while the
\* flag reads true it stays in the read-only loop, and the only way out of
\* that loop is back to the compare-exchange.
C38_ReadOnlySpin ==
    [][\A t \in Threads :
          /\ (pc'[t] = "cas" /\ pc[t] # "cas")
                => \/ pc[t] \in {"idle", "in", "called"}
                   \/ pc[t] = "load" /\ atomic = FALSE
          /\ (pc[t] = "load" /\ atomic = TRUE) => pc'[t] = "load"
          /\ (pc[t] = "load" /\ pc'[t] # "load") => pc'[t] = "cas"
          /\ (pc[t] = "load" \/ pc'[t] = "load") => (atomic' = atomic \/ pc'[t] = pc[t])]_vars

\* a thread is in the read-only loop while another is inside an engine call
\* made through the guard
C38_SpinsWhileHeld ==
    \E t, u \in Threads :
        t # u /\ pc[t] = "load" /\ pc[u] = "engine" /\ guards[u] = 1 /\ atomic = TRUE

\* C39: once the heap is built, no step changes base or ncells, and an alloc
\* of any size, successful or failing, keeps every in-use run of the list: a
\* zero-size or failing alloc leaves the whole run list as it was, and cell 0
\* is not made the terminal run again.
C39_BuiltOnce ==
    [][base # 0 =>
          /\ base' = base /\ ncells' = ncells
          /\ given_base' = given_base /\ given_size' = given_size
          /\ (last'.op = "alloc" /\ nops' = nops + 1 /\ status' = "ok") =>
                /\ InUseRuns(Self) \subseteq InUseRuns(SelfAfter)
                /\ last'.path \in {"nofit", "zero"} => RunList(SelfAfter) = RunList(Self)]_vars

\* an alloc has failed on a built heap on which the caller holds a block
\* whose run heads the list
C39_LaterAllocFailed ==
    /\ status = "ok" /\ base # 0
    /\ last.op = "alloc" /\ last.path = "nofit"
    /\ GetNext(Self, 0) > 0
    /\ \E b \in Blocks : b.size > 0 /\ ptr_to_cell(Self, b.ptr) = 0

====
